---- MODULE Spec2Model ----
(***************************************************************************)
(* foxglove.db.migrations: run_migrations and the statements it sends to   *)
(* PostgreSQL.  A runner is one call of run_migrations; each action is one *)
(* stretch of the coroutine between two awaits ("After..."/"Call") or the  *)
(* server's execution of the statement the coroutine awaits ("Exec...").   *)
(* The committed database is db; what a transaction has done and not yet   *)
(* committed is tx[r].                                                     *)
(***************************************************************************)
EXTENDS Integers, Sequences, FiniteSets, TLC

VARIABLES pc, args, loc, tx, ret, db, lockHolders, glove_pg, hist

vars == <<pc, args, loc, tx, ret, db, lockHolders, glove_pg, hist>>

\* ------------------------------------------------------------------ bounds
\* longest patch list given to a call when a single runner works alone
MaxLen == 2
\* longest patch list given to a call when two runners work concurrently
MaxConcLen == 1

Runners == {"r1", "r2"}
\* the test's transaction that takes the table lock by hand
ExtTx == "ext"

\* ------------------------------------------------------------ python values
NoneVal == "None"
Truthy(x) == x # NoneVal /\ x # ""
\* Python's  x or d
Or(x, d) == IF Truthy(x) THEN x ELSE d

\* ----------------------------------------------------------------- patches
VarcharLimit == 255
LongRef == "rrrrrrrrrrrrrrrrrrrrrrrrrrrrrrrrrrrrrrrrrrrrrrrrrrrrrrrrrrrrrrrrrrrrrrrrrrrrrrrrrrrrrrrrrrrrrrrrrrrrrrrrrrrrrrrrrrrrrrrrrrrrrrrrrrrrrrrrrrrrrrrrrrrrrrrrrrrrrrrrrrrrrrrrrrrrrrrrrrrrrrrrrrrrrrrrrrrrrrrrrrrrrrrrrrrrrrrrrrrrrrrrrrrrrrrrrrrrrrrrrrrrrrrrrrrrrrrr"

Patch(func, auto_ref, section) ==
    [func |-> func, auto_ref |-> auto_ref, auto_ref_sql_section |-> section]

ok_patch == Patch("ok_patch", "foobar", NoneVal)
sec_patch == Patch("sec_patch", "foobar", "a")
manual_patch == Patch("manual_patch", NoneVal, NoneVal)
long_patch == Patch("long_patch", LongRef, NoneVal)

Universe == {ok_patch, sec_patch, manual_patch, long_patch}

\* a patch of the name and auto_ref of ok_patch that names the SQL section "-"
dash_patch == Patch("ok_patch", "foobar", "-")

\* settings.sql: the SQL sections by name; a name that is missing fails the lookup.
\* The section "-" holds the text "-".
DefaultSql == ("a" :> "x") @@ ("-" :> "-")
SqlSources == {DefaultSql, <<>>}

Lists(n) == UNION {[1..k -> Universe] : k \in 0..n}

\* the faults the work of a patch body can raise: an error of the domain
\* (test_run_migrations_error raises ValueError), and the cancellation and the
\* interrupt, which derive from BaseException and not from Exception
Faults == {"ValueError", "CancelledError", "KeyboardInterrupt"}

\* what the work of a patch body can end with
BodyOutcomes == {"ok"} \cup Faults

\* how patch.func hands its work over: a coroutine function ("async def"), a
\* plain function that has done its work when it returns, or a plain callable
\* that returns an awaitable which is to do the work
Conventions == {"coroutine", "function", "deferred"}

\* calling patch.func gives an awaitable that holds the body's work
HandsBackAwaitable(conv) == conv \in {"coroutine", "deferred"}

\* asyncio.iscoroutinefunction(patch.func), line 107
iscoroutinefunction(conv) == conv = "coroutine"

\* "except BaseException", line 113: every fault is caught
\* ("except Exception": the cancellation and the interrupt pass through)
CatchesExceptionOnly(fault) == fault = "ValueError"
Catches(fault) == fault \in Faults

\* run_patch, lines 103-119, for a body of convention conv whose work ends with
\* outcome: what it returns, whether the body's work has completed by then, the
\* fault it logs and the fault that leaves it.  The awaitable a plain callable
\* returns is the result that line 111 logs: nothing awaits it, its work is not
\* done and its outcome is never seen.
run_patch(conv, outcome) ==
    IF HandsBackAwaitable(conv) /\ ~iscoroutinefunction(conv)
    THEN [successful |-> TRUE, completed |-> FALSE, fault |-> NoneVal, escaped |-> NoneVal]
    ELSE IF outcome = "ok"
    THEN [successful |-> TRUE, completed |-> TRUE, fault |-> NoneVal, escaped |-> NoneVal]
    ELSE IF Catches(outcome)
    THEN [successful |-> FALSE, completed |-> FALSE, fault |-> outcome, escaped |-> NoneVal]
    ELSE [successful |-> FALSE, completed |-> FALSE, fault |-> outcome, escaped |-> outcome]

\* (line 38 without the filter)
migration_patchesAll(patches) == patches

\* line 38
migration_patches(patches) == SelectSeq(patches, LAMBDA p : Truthy(p.auto_ref))

\* get_sql_section(name, settings.sql): the section's text, or a lookup error
get_sql_section(name, sql) ==
    IF name \in DOMAIN sql THEN [ok |-> TRUE, value |-> sql[name]]
    ELSE [ok |-> FALSE, value |-> NoneVal]

\* (lines 61-64 with a lookup that gives None for a section it does not find)
SectionContentLenient(p, sql) ==
    IF Truthy(p.auto_ref_sql_section) /\ get_sql_section(p.auto_ref_sql_section, sql).ok
    THEN get_sql_section(p.auto_ref_sql_section, sql)
    ELSE [ok |-> TRUE, value |-> NoneVal]

\* lines 61-64: the content of the patch's SQL section, None without a section
SectionContent(p, sql) ==
    IF Truthy(p.auto_ref_sql_section)
    THEN get_sql_section(p.auto_ref_sql_section, sql)
    ELSE [ok |-> TRUE, value |-> NoneVal]

\* the four values of the insert, lines 74-77
Identity(p, content) ==
    <<p.func, p.auto_ref, Or(p.auto_ref_sql_section, "-"), Or(content, "-")>>

\* varchar(255) columns, lines 22-24
FitsColumns(id) ==
    /\ Len(id[1]) <= VarcharLimit
    /\ Len(id[2]) <= VarcharLimit
    /\ Len(id[3]) <= VarcharLimit

\* ------------------------------------------------------------------- state
\* fetchval gives None when the insert returned no row
NoId == <<>>

NoTx == [conn |-> "none", state |-> "none", table |-> FALSE, rows |-> <<>>, effects |-> <<>>]
NoArgs == [patches |-> <<>>, live |-> FALSE, sql |-> DefaultSql]
NoLoc == [i |-> 0, count |-> 0, up_to_date |-> 0, default_pg |-> <<>>,
          sql_section_content |-> NoneVal, migration_id |-> NoId, successful |-> FALSE,
          exc |-> NoneVal]
NoRet == [kind |-> "none", value |-> 0, exc |-> NoneVal, path |-> "none"]
EmptyDb == [table |-> FALSE, rows |-> <<>>, effects |-> <<>>]
\* of the call in progress: what the end of its transaction added to the committed
\* database, the identities whose bodies it started, whether another transaction
\* held the table lock when its lock statement ran, whether it repeats the call
\* before it and what that call returned; for each patch the loop has dealt with,
\* in order, whether it was skipped as recorded ("skipped") or its body was called
\* and its work completed ("applied"), raised ("failed") or was left in an
\* awaitable nobody awaited ("pending"); and the fault run_patch caught
NoHist == [committed |-> EmptyDb, executed |-> <<>>, contended |-> FALSE,
           repeat |-> FALSE, first |-> 0, status |-> <<>>, fault |-> NoneVal]

DefaultPool == <<"Pool">>
DummyPgPool(r) == <<"DummyPgPool", r>>

Init ==
    /\ pc = [r \in Runners |-> "idle"]
    /\ args = [r \in Runners |-> NoArgs]
    /\ loc = [r \in Runners |-> NoLoc]
    /\ tx = [r \in Runners |-> NoTx]
    /\ ret = [r \in Runners |-> NoRet]
    /\ db = EmptyDb
    /\ lockHolders = {}
    /\ glove_pg = DefaultPool
    /\ hist = [r \in Runners |-> NoHist]

Seq2Set(s) == {s[k] : k \in 1..Len(s)}
mp(r) == migration_patches(args[r].patches)
Others(r) == Runners \ {r}

\* --------------------------------------------------- PostgreSQL primitives
\* "create table if not exists" looks the name up without locking the relation:
\* the table is there for r when it is committed or r's transaction created it
TableVisible(r) == db.table \/ tx[r].table

\* another open transaction has created the table and not yet committed: the
\* catalog's unique index makes a second creator wait for that transaction
CreatorInProgress(r) == \E o \in Others(r) : tx[o].state = "active" /\ tx[o].table

\* "lock table migrations nowait" (ACCESS EXCLUSIVE): granted unless another
\* transaction holds a lock on the table
\* (a lock that is granted whoever holds it)
LockAvailableNoCheck(r) == TRUE
LockAvailable(r) == lockHolders \subseteq {r}

\* (a conflict check that sees the committed rows only, as one made on another
\* connection)
VisibleRowsCommitted(r) == db.rows

\* rows the insert's conflict check sees: the committed ones and r's own
VisibleRows(r) == db.rows \o tx[r].rows

\* "on conflict (...) do nothing returning id": no row and no id when the tuple exists
\* (a conflict target that never matches, as with null in a column: line 66)
ConflictsNoCheck(r, id) == FALSE
Conflicts(r, id) == id \in Seq2Set(VisibleRows(r))

\* the end of r's transaction releases its locks
Release(r) == lockHolders' = lockHolders \ {r}

\* the committed database after r's transaction commits
Committed(r) ==
    [table |-> db.table \/ tx[r].table,
     rows |-> db.rows \o tx[r].rows,
     effects |-> db.effects \o tx[r].effects]

\* what a step added to the committed database
Diff(old, new) ==
    [table |-> new.table /\ ~old.table,
     rows |-> SubSeq(new.rows, Len(old.rows) + 1, Len(new.rows)),
     effects |-> SubSeq(new.effects, Len(old.effects) + 1, Len(new.effects))]

\* the call's record of what the end of its transaction left in the database
Observe(r) == hist' = [hist EXCEPT ![r].committed = Diff(db, db')]

\* tr.commit(), line 94
CommitTx(r) ==
    /\ db' = Committed(r)
    /\ tx' = [tx EXCEPT ![r] = [NoTx EXCEPT !.conn = "closed", !.state = "committed"]]
    /\ Release(r)

\* tr.rollback(), lines 53, 86, 97: what the transaction did is discarded
RollbackTx(r) ==
    /\ db' = db
    /\ tx' = [tx EXCEPT ![r] = [NoTx EXCEPT !.conn = "closed", !.state = "rolledback"]]
    /\ Release(r)

\* AsyncPgContext.__aexit__: the connection is closed, and the server rolls back
\* a transaction that is still open on it
CloseConn(r) ==
    /\ db' = db
    /\ tx' = [tx EXCEPT ![r] = [NoTx EXCEPT !.conn = "closed",
                 !.state = IF tx[r].state = "active" THEN "rolledback" ELSE tx[r].state]]
    /\ Release(r)

\* "async with AsyncPgContext(...)" at line 44 runs __aexit__ when an exception
\* leaves the block
\* (a connection opened without the context manager stays open on an exception)
LeakOnException(r) ==
    /\ UNCHANGED <<db, tx, lockHolders>>
ExitOnException(r) == CloseConn(r)

Returned(v, path) == [kind |-> "return", value |-> v, exc |-> NoneVal, path |-> path]
Raised(e) == [kind |-> "raise", value |-> 0, exc |-> e, path |-> "error"]

\* ------------------------------------------------------------ run_migrations
\* The top of the for loop at line 59 for the k-th migration patch, reached with
\* count c, up_to_date u and default_pg dp: after the last patch lines 92-97 restore
\* glove.pg and send the commit or the rollback; otherwise lines 60-78 resolve the
\* SQL section and send the insert.  A failing lookup raises out of the block.
LoopHead(r, k, c, u, dp, g) ==
    LET l == [loc[r] EXCEPT !.i = k, !.count = c, !.up_to_date = u, !.default_pg = dp]
    IN  IF k > Len(mp(r))
        THEN /\ glove_pg' = dp
             /\ loc' = [loc EXCEPT ![r] = l]
             /\ pc' = [pc EXCEPT ![r] = IF args[r].live THEN "commit" ELSE "rollback_dry"]
        ELSE LET p == mp(r)[k]
                 got == SectionContent(p, args[r].sql)
             IN  /\ glove_pg' = g
                 /\ IF got.ok
                    THEN /\ loc' = [loc EXCEPT ![r] = [l EXCEPT !.sql_section_content = got.value]]
                         /\ pc' = [pc EXCEPT ![r] = "insert"]
                    ELSE /\ loc' = [loc EXCEPT ![r] = [l EXCEPT !.exc = "LookupError"]]
                         /\ pc' = [pc EXCEPT ![r] = "close"]

\* lines 38-48: the filter and the fast path; otherwise the connection is opened,
\* the transaction started and "create table if not exists" sent
\* (lines 38-48 with the fast path testing patches instead of migration_patches)
EnterUnfiltered(r, ps, lv, sq, rep) ==
    /\ args' = [args EXCEPT ![r] = [patches |-> ps, live |-> lv, sql |-> sq]]
    /\ loc' = [loc EXCEPT ![r] = NoLoc]
    /\ hist' = [hist EXCEPT ![r] = [NoHist EXCEPT !.repeat = rep,
                                       !.first = IF rep THEN ret[r].value ELSE 0]]
    /\ IF ps = <<>>
       THEN /\ pc' = [pc EXCEPT ![r] = "done"]
            /\ ret' = [ret EXCEPT ![r] = Returned(0, "noop")]
            /\ tx' = [tx EXCEPT ![r] = NoTx]
       ELSE /\ pc' = [pc EXCEPT ![r] = "create"]
            /\ ret' = [ret EXCEPT ![r] = NoRet]
            /\ tx' = [tx EXCEPT ![r] = [NoTx EXCEPT !.conn = "open", !.state = "active"]]
    /\ UNCHANGED <<db, lockHolders, glove_pg>>

Enter(r, ps, lv, sq, rep) ==
    /\ args' = [args EXCEPT ![r] = [patches |-> ps, live |-> lv, sql |-> sq]]
    /\ loc' = [loc EXCEPT ![r] = NoLoc]
    /\ hist' = [hist EXCEPT ![r] = [NoHist EXCEPT !.repeat = rep,
                                       !.first = IF rep THEN ret[r].value ELSE 0]]
    /\ IF migration_patches(ps) = <<>>
       THEN /\ pc' = [pc EXCEPT ![r] = "done"]
            /\ ret' = [ret EXCEPT ![r] = Returned(0, "noop")]
            /\ tx' = [tx EXCEPT ![r] = NoTx]
       ELSE /\ pc' = [pc EXCEPT ![r] = "create"]
            /\ ret' = [ret EXCEPT ![r] = NoRet]
            /\ tx' = [tx EXCEPT ![r] = [NoTx EXCEPT !.conn = "open", !.state = "active"]]
    /\ UNCHANGED <<db, lockHolders, glove_pg>>

\* settings.sql is read only for a patch that names a section (line 61)
SqlMatters(ps) == \E k \in 1..Len(ps) : Truthy(ps[k].auto_ref) /\ Truthy(ps[k].auto_ref_sql_section)

Call(r, ps, lv, sq) ==
    /\ pc[r] = "idle"
    /\ SqlMatters(ps) \/ sq = DefaultSql
    /\ Enter(r, ps, lv, sq, FALSE)

\* the caller calls again with the same patches and settings after a live run
\* that went through (test_run_migrations_ok, lines 59 and 73)
CallAgain(r) ==
    /\ pc[r] = "done"
    /\ ret[r].path = "live"
    /\ ~hist[r].repeat
    /\ Enter(r, args[r].patches, TRUE, args[r].sql, TRUE)

\* the caller takes the result
Return(r) ==
    /\ pc[r] = "done"
    /\ pc' = [pc EXCEPT ![r] = "idle"]
    /\ args' = [args EXCEPT ![r] = NoArgs]
    /\ loc' = [loc EXCEPT ![r] = NoLoc]
    /\ tx' = [tx EXCEPT ![r] = NoTx]
    /\ ret' = [ret EXCEPT ![r] = NoRet]
    /\ hist' = [hist EXCEPT ![r] = NoHist]
    /\ UNCHANGED <<db, lockHolders, glove_pg>>

\* line 48 at the server
ExecCreate(r) ==
    /\ pc[r] = "create"
    /\ IF TableVisible(r)
       THEN /\ pc' = [pc EXCEPT ![r] = "lock"]
            /\ tx' = tx
       ELSE IF CreatorInProgress(r)
       THEN /\ pc' = [pc EXCEPT ![r] = "create_wait"]
            /\ tx' = tx
       ELSE /\ pc' = [pc EXCEPT ![r] = "lock"]
            /\ tx' = [tx EXCEPT ![r].table = TRUE]
    /\ UNCHANGED <<args, loc, ret, db, lockHolders, glove_pg, hist>>

\* line 48 at the server once the transaction it waited for has ended: the table
\* is created if that transaction rolled back, and the statement fails on the
\* catalog's unique index if it committed
ExecCreateResume(r) ==
    /\ pc[r] = "create_wait"
    /\ ~CreatorInProgress(r)
    /\ IF db.table
       THEN /\ pc' = [pc EXCEPT ![r] = "close"]
            /\ loc' = [loc EXCEPT ![r].exc = "UniqueViolationError"]
            /\ tx' = tx
       ELSE /\ pc' = [pc EXCEPT ![r] = "lock"]
            /\ loc' = loc
            /\ tx' = [tx EXCEPT ![r].table = TRUE]
    /\ UNCHANGED <<args, ret, db, lockHolders, glove_pg, hist>>

\* (line 50 without "nowait": the statement waits for the holder)
ExecLockWait(r) ==
    /\ pc[r] = "lock"
    /\ LockAvailable(r)
    /\ lockHolders' = lockHolders \cup {r}
    /\ pc' = [pc EXCEPT ![r] = "locked"]
    /\ hist' = [hist EXCEPT ![r].contended = ~(lockHolders \subseteq {r})]
    /\ UNCHANGED <<args, loc, tx, ret, db, glove_pg>>

\* line 50 at the server, and lines 51-53 when the lock is not available: with
\* "nowait" the statement never waits for the holder
ExecLock(r) ==
    /\ pc[r] = "lock"
    /\ IF LockAvailable(r)
       THEN /\ lockHolders' = lockHolders \cup {r}
            /\ pc' = [pc EXCEPT ![r] = "locked"]
       ELSE /\ lockHolders' = lockHolders
            /\ pc' = [pc EXCEPT ![r] = "rollback_locked"]
    /\ hist' = [hist EXCEPT ![r].contended = ~(lockHolders \subseteq {r})]
    /\ UNCHANGED <<args, loc, tx, ret, db, glove_pg>>

\* line 53 at the server, then line 54
ExecRollbackLocked(r) ==
    /\ pc[r] = "rollback_locked"
    /\ RollbackTx(r)
    /\ Observe(r)
    /\ pc' = [pc EXCEPT ![r] = "done"]
    /\ ret' = [ret EXCEPT ![r] = Returned(0, "locked")]
    /\ UNCHANGED <<args, loc, glove_pg>>

\* lines 56-58 and the first turn of the loop
AfterLock(r) ==
    /\ pc[r] = "locked"
    /\ LoopHead(r, 1, 0, 0, glove_pg, DummyPgPool(r))
    /\ UNCHANGED <<args, tx, ret, db, lockHolders, hist>>

\* lines 67-78 at the server
ExecInsert(r) ==
    /\ pc[r] = "insert"
    /\ LET id == Identity(mp(r)[loc[r].i], loc[r].sql_section_content)
       IN  IF ~FitsColumns(id)
           THEN /\ pc' = [pc EXCEPT ![r] = "close"]
                /\ loc' = [loc EXCEPT ![r].exc = "DataError"]
                /\ tx' = tx
           ELSE IF Conflicts(r, id)
           THEN /\ pc' = [pc EXCEPT ![r] = "inserted"]
                /\ loc' = [loc EXCEPT ![r].migration_id = NoId]
                /\ tx' = tx
           ELSE /\ pc' = [pc EXCEPT ![r] = "inserted"]
                /\ loc' = [loc EXCEPT ![r].migration_id = <<Len(VisibleRows(r)) + 1>>]
                /\ tx' = [tx EXCEPT ![r].rows = Append(@, id)]
    /\ UNCHANGED <<args, ret, db, lockHolders, glove_pg, hist>>

\* (lines 79-83 without the test of migration_id)
AfterInsertRunsAnyway(r) ==
    /\ pc[r] = "inserted"
    /\ pc' = [pc EXCEPT ![r] = "body"]
    /\ UNCHANGED <<loc, glove_pg>>
    /\ UNCHANGED <<args, tx, ret, db, lockHolders, hist>>

\* lines 79-83: skip a patch that is recorded already, else start its body
AfterInsert(r) ==
    /\ pc[r] = "inserted"
    /\ IF loc[r].migration_id = NoId
       THEN /\ LoopHead(r, loc[r].i + 1, loc[r].count, loc[r].up_to_date + 1,
                        loc[r].default_pg, glove_pg)
            /\ hist' = [hist EXCEPT ![r].status = Append(@, "skipped")]
       ELSE /\ pc' = [pc EXCEPT ![r] = "body"]
            /\ UNCHANGED <<loc, glove_pg, hist>>
    /\ UNCHANGED <<args, tx, ret, db, lockHolders>>

\* what the loop's record says of a body run_patch has judged
StatusOf(res) ==
    IF res.fault # NoneVal THEN "failed"
    ELSE IF res.completed THEN "applied" ELSE "pending"

\* line 83, run_patch (lines 103-119): patch.func is called with the connection
\* and, when it is a coroutine function, awaited; the work that is done goes
\* through the connection, inside the transaction.  The step stands for the
\* await of line 108; a plain callable returns within the step that called it.
ExecBody(r, conv, outcome) ==
    /\ pc[r] = "body"
    /\   LET id == Identity(mp(r)[loc[r].i], loc[r].sql_section_content)
             res == run_patch(conv, outcome)
         IN  /\ tx' = [tx EXCEPT ![r].effects =
                          IF res.completed \/ res.fault # NoneVal THEN Append(@, id) ELSE @]
             /\ hist' = [hist EXCEPT ![r].executed = Append(@, id),
                                      ![r].status = Append(@, StatusOf(res)),
                                      ![r].fault = res.fault]
             /\ IF res.escaped = NoneVal
                THEN /\ loc' = [loc EXCEPT ![r].successful = res.successful]
                     /\ pc' = [pc EXCEPT ![r] = "ran"]
                ELSE /\ loc' = [loc EXCEPT ![r].successful = FALSE, ![r].exc = res.escaped]
                     /\ pc' = [pc EXCEPT ![r] = "close"]
    /\ UNCHANGED <<args, ret, db, lockHolders, glove_pg>>

\* (lines 84-90 leaving the loop on a failure instead of rolling back)
AfterPatchBreak(r) ==
    /\ pc[r] = "ran"
    /\ IF ~loc[r].successful
       THEN LoopHead(r, Len(mp(r)) + 1, loc[r].count, loc[r].up_to_date,
                     loc[r].default_pg, glove_pg)
       ELSE LoopHead(r, loc[r].i + 1, loc[r].count + 1, loc[r].up_to_date,
                     loc[r].default_pg, glove_pg)
    /\ UNCHANGED <<args, tx, ret, db, lockHolders, hist>>

\* lines 84-90
AfterPatch(r) ==
    /\ pc[r] = "ran"
    /\ IF ~loc[r].successful
       THEN /\ pc' = [pc EXCEPT ![r] = "rollback_fail"]
            /\ UNCHANGED <<loc, glove_pg>>
       ELSE LoopHead(r, loc[r].i + 1, loc[r].count + 1, loc[r].up_to_date,
                     loc[r].default_pg, glove_pg)
    /\ UNCHANGED <<args, tx, ret, db, lockHolders, hist>>

\* line 86 at the server
ExecRollbackFail(r) ==
    /\ pc[r] = "rollback_fail"
    /\ RollbackTx(r)
    /\ Observe(r)
    /\ pc' = [pc EXCEPT ![r] = "rolledback"]
    /\ UNCHANGED <<args, loc, ret, glove_pg>>

\* lines 87-88
AfterRollbackFail(r) ==
    /\ pc[r] = "rolledback"
    /\ glove_pg' = loc[r].default_pg
    /\ pc' = [pc EXCEPT ![r] = "done"]
    /\ ret' = [ret EXCEPT ![r] = Returned(0, "failed")]
    /\ UNCHANGED <<args, loc, tx, db, lockHolders, hist>>

\* line 94 at the server, then lines 95 and 100
ExecCommit(r) ==
    /\ pc[r] = "commit"
    /\ CommitTx(r)
    /\ Observe(r)
    /\ pc' = [pc EXCEPT ![r] = "done"]
    /\ ret' = [ret EXCEPT ![r] = Returned(loc[r].count, "live")]
    /\ UNCHANGED <<args, loc, glove_pg>>

\* (lines 93-97 committing whatever live is)
ExecRollbackDryCommits(r) ==
    /\ pc[r] = "rollback_dry"
    /\ CommitTx(r)
    /\ Observe(r)
    /\ pc' = [pc EXCEPT ![r] = "done"]
    /\ ret' = [ret EXCEPT ![r] = Returned(loc[r].count, "dry")]
    /\ UNCHANGED <<args, loc, glove_pg>>

\* line 97 at the server, then lines 98 and 100
ExecRollbackDry(r) ==
    /\ pc[r] = "rollback_dry"
    /\ RollbackTx(r)
    /\ Observe(r)
    /\ pc' = [pc EXCEPT ![r] = "done"]
    /\ ret' = [ret EXCEPT ![r] = Returned(loc[r].count, "dry")]
    /\ UNCHANGED <<args, loc, glove_pg>>

\* an exception leaves the "async with" block of line 44
ExecClose(r) ==
    /\ pc[r] = "close"
    /\ ExitOnException(r)
    /\ Observe(r)
    /\ pc' = [pc EXCEPT ![r] = "done"]
    /\ ret' = [ret EXCEPT ![r] = Raised(loc[r].exc)]
    /\ UNCHANGED <<args, loc, glove_pg>>

\* test_run_migrations_ok, lines 78-81: a transaction of another client takes
\* the table lock ("lock table migrations" waits until it is free) and ends
ExtLock ==
    /\ db.table
    /\ lockHolders = {}
    /\ lockHolders' = {ExtTx}
    /\ UNCHANGED <<pc, args, loc, tx, ret, db, glove_pg, hist>>

ExtEnd ==
    /\ ExtTx \in lockHolders
    /\ lockHolders' = lockHolders \ {ExtTx}
    /\ UNCHANGED <<pc, args, loc, tx, ret, db, glove_pg, hist>>

\* --------------------------------------------------------- specifications
\* two runners start against the same database, as replicas of a service do; the
\* first is given every list up to MaxConcLen, the second one eligible patch
ConcLists(r) == IF r = "r1" THEN Lists(MaxConcLen) ELSE {<<ok_patch>>}

\* the bodies of the concurrent calls are coroutine functions that complete or
\* raise the domain's error, as the ones of the tests
ConcConventions == {"coroutine"}
ConcOutcomes == {"ok", "ValueError"}

Next ==
    \/ \E r \in Runners : \E ps \in ConcLists(r), lv \in BOOLEAN, sq \in SqlSources :
         Call(r, ps, lv, sq)
    \/ \E r \in Runners : CallAgain(r)
    \/ \E r \in Runners : Return(r)
    \/ \E r \in Runners : ExecCreate(r)
    \/ \E r \in Runners : ExecCreateResume(r)
    \/ \E r \in Runners : ExecLock(r)
    \/ \E r \in Runners : ExecRollbackLocked(r)
    \/ \E r \in Runners : AfterLock(r)
    \/ \E r \in Runners : ExecInsert(r)
    \/ \E r \in Runners : AfterInsert(r)
    \/ \E r \in Runners : \E conv \in ConcConventions, outcome \in ConcOutcomes :
         ExecBody(r, conv, outcome)
    \/ \E r \in Runners : AfterPatch(r)
    \/ \E r \in Runners : ExecRollbackFail(r)
    \/ \E r \in Runners : AfterRollbackFail(r)
    \/ \E r \in Runners : ExecCommit(r)
    \/ \E r \in Runners : ExecRollbackDry(r)
    \/ \E r \in Runners : ExecClose(r)
    \/ ExtLock
    \/ ExtEnd

Spec == Init /\ [][Next]_vars

\* one runner works through longer lists, with the other client's lock
SeqRunner == "r1"

SeqNext ==
    \/ \E ps \in Lists(MaxLen), lv \in BOOLEAN, sq \in SqlSources : Call(SeqRunner, ps, lv, sq)
    \/ CallAgain(SeqRunner)
    \/ Return(SeqRunner)
    \/ ExecCreate(SeqRunner)
    \/ ExecLock(SeqRunner)
    \/ ExecRollbackLocked(SeqRunner)
    \/ AfterLock(SeqRunner)
    \/ ExecInsert(SeqRunner)
    \/ AfterInsert(SeqRunner)
    \/ \E conv \in Conventions, outcome \in BodyOutcomes : ExecBody(SeqRunner, conv, outcome)
    \/ AfterPatch(SeqRunner)
    \/ ExecRollbackFail(SeqRunner)
    \/ AfterRollbackFail(SeqRunner)
    \/ ExecCommit(SeqRunner)
    \/ ExecRollbackDry(SeqRunner)
    \/ ExecClose(SeqRunner)
    \/ ExtLock
    \/ ExtEnd

SeqSpec == Init /\ [][SeqNext]_vars

\* one runner, alone on the database, works through lists of a patch without SQL
\* section and the patch of the same name and auto_ref with the section "-"
SentinelUniverse == {ok_patch, dash_patch}
SentinelLists == UNION {[1..k -> SentinelUniverse] : k \in 0..MaxLen}

SentinelNext ==
    \/ \E ps \in SentinelLists, lv \in BOOLEAN : Call(SeqRunner, ps, lv, DefaultSql)
    \/ Return(SeqRunner)
    \/ ExecCreate(SeqRunner)
    \/ ExecLock(SeqRunner)
    \/ AfterLock(SeqRunner)
    \/ ExecInsert(SeqRunner)
    \/ AfterInsert(SeqRunner)
    \/ \E conv \in ConcConventions, outcome \in ConcOutcomes : ExecBody(SeqRunner, conv, outcome)
    \/ AfterPatch(SeqRunner)
    \/ ExecRollbackFail(SeqRunner)
    \/ AfterRollbackFail(SeqRunner)
    \/ ExecCommit(SeqRunner)
    \/ ExecRollbackDry(SeqRunner)

SentinelSpec == Init /\ [][SentinelNext]_vars

\* two tasks of one process, each with the one patch of the tests, on a database
\* nobody else uses
RaceLists == {<<ok_patch>>}

RaceNext ==
    \/ \E r \in Runners : \E ps \in RaceLists, lv \in BOOLEAN : Call(r, ps, lv, DefaultSql)
    \/ \E r \in Runners : Return(r)
    \/ \E r \in Runners : ExecCreate(r)
    \/ \E r \in Runners : ExecCreateResume(r)
    \/ \E r \in Runners : ExecLock(r)
    \/ \E r \in Runners : ExecRollbackLocked(r)
    \/ \E r \in Runners : AfterLock(r)
    \/ \E r \in Runners : ExecInsert(r)
    \/ \E r \in Runners : AfterInsert(r)
    \/ \E r \in Runners : \E conv \in ConcConventions, outcome \in ConcOutcomes :
         ExecBody(r, conv, outcome)
    \/ \E r \in Runners : AfterPatch(r)
    \/ \E r \in Runners : ExecRollbackFail(r)
    \/ \E r \in Runners : AfterRollbackFail(r)
    \/ \E r \in Runners : ExecCommit(r)
    \/ \E r \in Runners : ExecRollbackDry(r)
    \/ \E r \in Runners : ExecClose(r)

RaceSpec == Init /\ [][RaceNext]_vars

\* -------------------------------------------------------------- properties
NoDup(q) == \A a, b \in 1..Len(q) : q[a] = q[b] => a = b

\* the ledger tuple of the k-th migration patch of r's call, when its section resolves
IdentityAt(r, k) == Identity(mp(r)[k], SectionContent(mp(r)[k], args[r].sql).value)
Resolves(r) == \A k \in 1..Len(mp(r)) : SectionContent(mp(r)[k], args[r].sql).ok
Identities(r) == {IdentityAt(r, k) : k \in 1..Len(mp(r))}

\* the last body the call started ended with an exception
BodyFailed(r) == hist[r].executed # <<>> /\ ~loc[r].successful

\* C1: when a patch body of a call has failed, the call returns 0 and the end of
\* its transaction has left nothing in the committed database: no ledger table it
\* created, no ledger row and no effect of any body it started, the failing one
\* and the ones that succeeded before it.
AtomicFailingBatch ==
    \A r \in Runners :
      (pc[r] = "done" /\ BodyFailed(r)) =>
        /\ ret[r].kind = "return" /\ ret[r].value = 0
        /\ hist[r].committed = EmptyDb
        /\ \A k \in 1..Len(hist[r].executed) :
             /\ hist[r].executed[k] \notin Seq2Set(db.rows)
             /\ hist[r].executed[k] \notin Seq2Set(db.effects)

\* a call whose second body failed after the first succeeded, on a database that
\* had no ledger table, is over
AtomicFailingBatchWitness ==
    \E r \in Runners :
      /\ pc[r] = "done" /\ BodyFailed(r)
      /\ Len(hist[r].executed) = 2 /\ loc[r].count = 1
      /\ ~db.table

\* C2: a live call that repeats, with the same patches and settings, a live call
\* that went through starts no patch body, returns 0 and adds no ledger row.
Idempotent ==
    \A r \in Runners :
      hist[r].repeat =>
        /\ hist[r].executed = <<>>
        /\ pc[r] = "done" =>
             /\ ret[r].kind = "return" /\ ret[r].value = 0
             /\ hist[r].committed = EmptyDb

\* the second of two calls with two patches is over; the first had applied both
IdempotentWitness ==
    \E r \in Runners :
      /\ pc[r] = "done" /\ hist[r].repeat /\ hist[r].first = 2
      /\ ret[r].path = "live" /\ loc[r].up_to_date = 2
      /\ Len(db.rows) = 2

\* a runner that got the table lock and whose transaction has not ended
InCritical(r) ==
    \/ pc[r] \in {"locked", "insert", "inserted", "body", "ran", "rollback_fail",
                  "commit", "rollback_dry"}
    \/ pc[r] = "close" /\ loc[r].i > 0

\* C3: no two runners are at the same time between their lock statement's success
\* and the end of their transaction, and a runner there is the only holder of
\* the table lock.
MutualExclusion ==
    \A a \in Runners :
      InCritical(a) =>
        /\ lockHolders = {a}
        /\ \A b \in Runners \ {a} : ~InCritical(b)

\* one runner executes a patch body while the other has been refused the lock
MutualExclusionWitness ==
    \E a, b \in Runners :
      /\ pc[a] = "body"
      /\ pc[b] = "rollback_locked" /\ hist[b].contended

NeverWaits == \A r \in Runners : pc[r] # "create_wait"

\* C6: the committed ledger holds no tuple twice, no identity's body has its
\* effects committed twice, and no body runs for an identity that has a committed
\* ledger row.
AppliedAtMostOnce ==
    /\ NoDup(db.rows)
    /\ NoDup(db.effects)
    /\ \A r \in Runners :
         pc[r] \in {"body", "ran"} =>
           IdentityAt(r, loc[r].i) \notin Seq2Set(db.rows)

\* a dry call has been told by the insert that a committed row exists already
AppliedAtMostOnceWitness ==
    \E r \in Runners :
      /\ pc[r] = "inserted" /\ loc[r].migration_id = NoId
      /\ ~args[r].live
      /\ IdentityAt(r, loc[r].i) \in Seq2Set(db.rows)

\* the committed ledger without what the end of r's transaction added to it: the
\* ledger before the call when no other runner works
RowsBefore(r) == SubSeq(db.rows, 1, Len(db.rows) - Len(hist[r].committed.rows))

\* a dry call that got the lock, returned, and whose N patches were not in the
\* ledger before it and had no failing body
DryRunCase(r) ==
    /\ pc[r] = "done" /\ ret[r].kind = "return"
    /\ ~args[r].live /\ ~hist[r].contended
    /\ mp(r) # <<>>
    /\ Resolves(r)
    /\ \A k \in 1..Len(mp(r)) : IdentityAt(r, k) \notin Seq2Set(RowsBefore(r))
    /\ ~BodyFailed(r)

NothingCommitted(r) == hist[r].committed = EmptyDb

\* C7 as stated: such a call has executed N bodies, returns N and has committed
\* nothing.
DryRunReturnsN ==
    \A r \in Runners :
      DryRunCase(r) =>
        /\ Len(hist[r].executed) = Len(mp(r))
        /\ ret[r].value = Len(mp(r))
        /\ NothingCommitted(r)

\* C7 as amended: such a call has executed one body for each distinct ledger
\* tuple among its N patches, returns their number and has committed nothing.
DryRunReturnsDistinct ==
    \A r \in Runners :
      DryRunCase(r) =>
        /\ Seq2Set(hist[r].executed) = Identities(r)
        /\ NoDup(hist[r].executed)
        /\ ret[r].value = Cardinality(Identities(r))
        /\ NothingCommitted(r)

\* a dry call with two patches returned 2 and there is still no ledger table
DryRunWitness ==
    \E r \in Runners :
      /\ DryRunCase(r)
      /\ Len(mp(r)) = 2 /\ ret[r].value = 2
      /\ ~db.table

\* C8: a call whose list holds no patch with an auto_ref is over at once with 0:
\* it has no connection and no transaction, holds no lock and has committed nothing.
NoOpFastPath ==
    \A r \in Runners :
      (pc[r] # "idle" /\ mp(r) = <<>>) =>
        /\ pc[r] = "done"
        /\ ret[r].kind = "return" /\ ret[r].value = 0
        /\ tx[r] = NoTx
        /\ r \notin lockHolders
        /\ hist[r].committed = EmptyDb

\* a live call with a list of manual patches only is over and no table exists
NoOpFastPathWitness ==
    \E r \in Runners :
      /\ pc[r] = "done" /\ args[r].live
      /\ Len(args[r].patches) = 2 /\ mp(r) = <<>>
      /\ ~db.table

\* C9: a live call that returns has returned the number of ledger rows its
\* transaction committed, which is the number of bodies whose effects it
\* committed; that is 0 without an eligible patch, when the lock was held
\* elsewhere and when a body failed.
LiveReturnCount ==
    \A r \in Runners :
      (pc[r] = "done" /\ args[r].live /\ ret[r].kind = "return") =>
        /\ ret[r].value = Len(hist[r].committed.rows)
        /\ ret[r].value = Len(hist[r].committed.effects)
        /\ (mp(r) = <<>> \/ hist[r].contended \/ BodyFailed(r)) => ret[r].value = 0

\* C10: when a call that opened a transaction is over, on whichever path, the
\* transaction has been committed or rolled back, nothing of it is pending and
\* the call holds no lock; a runner that is not in a call holds none either.
ScopedTransaction ==
    \A r \in Runners :
      /\ (pc[r] = "done" /\ tx[r].conn # "none") =>
           /\ tx[r].conn = "closed"
           /\ tx[r].state \in {"committed", "rolledback"}
           /\ tx[r].rows = <<>> /\ tx[r].effects = <<>> /\ ~tx[r].table
      /\ pc[r] \in {"idle", "done"} => r \notin lockHolders

\* a call that held the lock has ended with the error of the ledger insert, and
\* the lock is free
ScopedTransactionWitness ==
    \E r \in Runners :
      /\ pc[r] = "done" /\ ret[r].kind = "raise" /\ ret[r].exc = "DataError"
      /\ loc[r].i > 0
      /\ lockHolders = {}

\* the record of the body the call dealt with last
LastStatus(r) == IF hist[r].status = <<>> THEN NoneVal ELSE hist[r].status[Len(hist[r].status)]
Positions(r, what) == {k \in 1..Len(hist[r].status) : hist[r].status[k] = what}

\* C11: whatever fault the work of a patch body raises (an error of the domain, the
\* cancellation, the interrupt), run_patch catches it and reports the failure:
\* no exception leaves run_patch or run_migrations, which rolls its
\* transaction back and returns 0 normally, leaving nothing committed.
FaultsNeverEscape ==
    \A r \in Runners :
      LastStatus(r) = "failed" =>
        /\ hist[r].fault \in Faults
        /\ ~loc[r].successful
        /\ loc[r].exc = NoneVal
        /\ pc[r] \in {"ran", "rollback_fail", "rolledback", "done"}
        /\ pc[r] = "done" =>
             /\ ret[r] = Returned(0, "failed")
             /\ tx[r].state = "rolledback"
             /\ hist[r].committed = EmptyDb

\* a live call whose second body was cancelled, after a first that succeeded
FaultsNeverEscapeWitness ==
    /\ pc["r1"] = "done"
    /\ args["r1"].live
    /\ hist["r1"].status = <<"applied", "failed">>
    /\ hist["r1"].fault = "CancelledError"
    /\ ret["r1"] = Returned(0, "failed")

\* C12: for every patch body, whether its function returns synchronously, is a
\* coroutine function or is a plain callable that hands back an awaitable,
\* run_patch reports success, and run_migrations counts the patch and commits,
\* only after the body's work has completed: no body whose work is unfinished
\* is reported as succeeded, counted or committed.
RunToCompletion ==
    \A r \in Runners :
      /\ (pc[r] = "ran" /\ loc[r].successful) => LastStatus(r) = "applied"
      /\ loc[r].count <= Cardinality(Positions(r, "applied"))
      /\ (pc[r] = "done" /\ ret[r].path = "live") => Positions(r, "pending") = {}

\* the positions of the list whose body the call has called, in the order of the list
CalledPositions(r) ==
    SelectSeq([k \in 1..Len(hist[r].status) |-> k], LAMBDA k : hist[r].status[k] # "skipped")

\* C13: within one call the eligible patches are recorded and executed strictly in
\* the order of the list, one at a time: the rows of the transaction and the
\* bodies called are those of the positions not skipped, in list order; the body
\* at position i starts only when every position before i was skipped as recorded
\* or has finished its work successfully; and after a failing patch no patch is
\* recorded or executed.
StrictOrder ==
    \A r \in Runners :
      LET st == hist[r].status
          called == CalledPositions(r)
      IN  /\ Len(st) <= Len(mp(r))
          /\ hist[r].executed = [j \in 1..Len(called) |-> IdentityAt(r, called[j])]
          /\ tx[r].state = "active" =>
               \/ tx[r].rows = hist[r].executed
               \/ /\ pc[r] \in {"inserted", "body"}
                  /\ tx[r].rows = Append(hist[r].executed, IdentityAt(r, loc[r].i))
          /\ pc[r] = "body" =>
               /\ loc[r].i = Len(st) + 1
               /\ \A k \in 1..Len(st) : st[k] \in {"skipped", "applied"}
          /\ \A k \in 1..Len(st) : st[k] = "failed" =>
               /\ k = Len(st)
               /\ pc[r] \in {"ran", "rollback_fail", "rolledback", "done"}

\* C17: a body is called only after the insert of this call put the row of its
\* identity into the same transaction and returned an id, never when the insert
\* found the identity recorded; a transaction that is rolled back leaves neither
\* the row nor the body's effects; so in every committed state the identities
\* with a ledger row are those whose body's effects are committed.
RecordBeforeRun ==
    /\ \A r \in Runners :
         /\ pc[r] = "body" =>
              /\ loc[r].migration_id # NoId
              /\ tx[r].state = "active"
              /\ tx[r].rows # <<>>
              /\ tx[r].rows[Len(tx[r].rows)] = IdentityAt(r, loc[r].i)
         /\ tx[r].state = "active" => Seq2Set(hist[r].executed) \subseteq Seq2Set(tx[r].rows)
         /\ tx[r].state = "rolledback" => hist[r].committed = EmptyDb
    /\ Seq2Set(db.rows) = Seq2Set(db.effects)

\* what tells the k-th migration patch of r's call from others: the name of its
\* function, its auto_ref, its section name and the content the section resolves
\* to, the last two None without a section
KeyAt(r, k) ==
    <<mp(r)[k].func, mp(r)[k].auto_ref, mp(r)[k].auto_ref_sql_section,
      SectionContent(mp(r)[k], args[r].sql).value>>

\* C14: a patch without SQL section is recorded with the section name "-" and the
\* content "-", and two patches the loop has dealt with that differ in name,
\* auto_ref, section name or resolved content, such as that patch and one of
\* the same name and auto_ref whose section resolves to the text "-", have
\* different ledger tuples, so that a patch is skipped as recorded only when a
\* patch equal to it in all four was recorded.
SentinelDistinct ==
    \A r \in Runners :
      LET n == Len(hist[r].status)
      IN  /\ \A k \in 1..n : ~Truthy(mp(r)[k].auto_ref_sql_section) =>
                /\ IdentityAt(r, k)[3] = "-"
                /\ IdentityAt(r, k)[4] = "-"
          /\ \A j, k \in 1..n : KeyAt(r, j) # KeyAt(r, k) => IdentityAt(r, j) # IdentityAt(r, k)
          /\ \A k \in 1..n :
               (hist[r].status[k] = "skipped" /\ IdentityAt(r, k) \notin Seq2Set(RowsBefore(r))) =>
                 \E j \in 1..(k - 1) : KeyAt(r, j) = KeyAt(r, k)

\* the lookup of the SQL section of the k-th migration patch of r's call fails
LookupFails(r, k) ==
    /\ Truthy(mp(r)[k].auto_ref_sql_section)
    /\ ~get_sql_section(mp(r)[k].auto_ref_sql_section, args[r].sql).ok

\* C15: when the loop comes to a patch, at whatever position, whose SQL section the
\* lookup does not find, the lookup's error leaves run_migrations, and the call
\* commits nothing, also with live=true: no ledger row and no effect of the
\* patches that succeeded before it in the call.
LookupFailureFatal ==
    \A r \in Runners :
      (loc[r].i \in 1..Len(mp(r)) /\ LookupFails(r, loc[r].i)) =>
        /\ pc[r] \in {"close", "done"}
        /\ loc[r].exc = "LookupError"
        /\ pc[r] = "done" =>
             /\ ret[r] = Raised("LookupError")
             /\ tx[r].state = "rolledback"
             /\ hist[r].committed = EmptyDb

\* a live call whose first patch succeeded and whose second names a missing section
LookupFailureFatalWitness ==
    /\ pc["r1"] = "done"
    /\ args["r1"].live
    /\ loc["r1"].i = 2 /\ loc["r1"].count = 1
    /\ hist["r1"].status = <<"applied">>
    /\ LookupFails("r1", 2)
    /\ ret["r1"].exc = "LookupError"

\* the patches of r's call that are not eligible: auto_ref empty or absent
ManualOnly(r) == {args[r].patches[k] : k \in {j \in 1..Len(args[r].patches) :
                                                  ~Truthy(args[r].patches[j].auto_ref)}}
Eligible(r) == {k \in 1..Len(args[r].patches) : Truthy(args[r].patches[k].auto_ref)}

\* C16: a patch whose auto_ref is empty or absent is never recorded in the ledger
\* and its body is never called, also when the list holds eligible patches
\* next to it, and it adds nothing to the count: the call deals with, counts
\* and returns no more than the eligible patches of its list.
ManualExcluded ==
    \A r \in Runners :
      /\ \A p \in ManualOnly(r) :
           \A id \in Seq2Set(hist[r].executed) \cup Seq2Set(tx[r].rows) \cup Seq2Set(db.rows) :
             ~(id[1] = p.func /\ id[2] = p.auto_ref)
      /\ Len(hist[r].status) <= Cardinality(Eligible(r))
      /\ loc[r].count + loc[r].up_to_date <= Cardinality(Eligible(r))
      /\ ret[r].value <= Cardinality(Eligible(r))

\* a live call with a manual-only patch before an eligible one applied one patch
ManualExcludedWitness ==
    /\ pc["r1"] = "done"
    /\ args["r1"].patches = <<manual_patch, ok_patch>>
    /\ ret["r1"] = Returned(1, "live")
    /\ Len(db.rows) = 1

\* C18: on each way out of run_migrations (no eligible patch, lock not available,
\* patch failure, dry run, live run, an error of the ledger insert or of the
\* SQL-section lookup inside the loop) glove.pg is after the call what it was
\* before it.  Nothing but run_migrations assigns glove.pg and the calls of the
\* one runner follow each other, so this says that glove.pg is the pool of the
\* start whenever no call is in progress.
GloveRestored ==
    (\A r \in Runners : pc[r] \in {"idle", "done"}) => glove_pg = DefaultPool

\* C19: with two calls interleaved as tasks of one process, glove.pg is what it
\* was before either started once both have returned, and no call saves the
\* other call's connection wrapper as the default to restore, also when the
\* other call ends by a patch failure and awaits its rollback before it
\* restores glove.pg.
GloveUnderConcurrency ==
    /\ (\A r \in Runners : pc[r] \in {"idle", "done"}) => glove_pg = DefaultPool
    /\ \A a \in Runners : \A b \in Others(a) : loc[b].default_pg # DummyPgPool(a)

\* C20: when two patches of the list have the same ledger tuple, the body of the
\* first occurrence only is called and counted; a later occurrence is skipped
\* as up to date and its body not called; and when the call gets through the
\* list, the applied count and the up-to-date count add up to the number of
\* eligible patches, the applied count being what the call returns.
DuplicatesInBatch ==
    \A r \in Runners :
      LET st == hist[r].status
      IN  /\ \A k \in 1..Len(st) :
               (\E j \in 1..(k - 1) : IdentityAt(r, j) = IdentityAt(r, k)) => st[k] = "skipped"
          /\ NoDup(hist[r].executed)
          /\ (pc[r] = "done" /\ ret[r].path \in {"live", "dry"}) =>
               /\ loc[r].count = Len(CalledPositions(r))
               /\ loc[r].up_to_date = Cardinality(Positions(r, "skipped"))
               /\ loc[r].count + loc[r].up_to_date = Len(mp(r))
               /\ ret[r].value = loc[r].count

\* a live call on an empty database with the same patch twice
DuplicatesInBatchWitness ==
    /\ pc["r1"] = "done"
    /\ ret["r1"] = Returned(1, "live")
    /\ mp("r1") = <<ok_patch, ok_patch>>
    /\ hist["r1"].status = <<"applied", "skipped">>
    /\ loc["r1"].count = 1 /\ loc["r1"].up_to_date = 1
    /\ Len(db.rows) = 1

TypeOK ==
    /\ \A r \in Runners : pc[r] \in {"idle", "create", "create_wait", "lock", "locked",
           "rollback_locked", "insert", "inserted", "body", "ran", "rollback_fail",
           "rolledback", "commit", "rollback_dry", "close", "done"}
    /\ lockHolders \subseteq Runners \cup {ExtTx}
====
